---- MODULE Spec2Model ----
(***************************************************************************)
(* NeuralCard (sapienskid/neuralcard): the deck index, the state store,    *)
(* the queue builder and the review session of main.ts, and the PouchDB    *)
(* state store of src/database/PouchDBManager.ts.                          *)
(*                                                                         *)
(* Strings that the code compares, concatenates or hashes (paths, card    *)
(* ids, PouchDB document ids) are sequences of one-character strings.      *)
(* Times are integer ticks.  A MemoryState keeps the two fields the index  *)
(* and the queue builder read, state and due; the other FSRS fields are    *)
(* copied verbatim by every operation and are left out.                    *)
(***************************************************************************)
EXTENDS Integers, Sequences, FiniteSets, TLC

(* ---------------------------------------------------------------- bounds *)
\* The lifecycle specification (Spec).
MaxTime == 1
MaxReviews == 1
\* The queue specification (SpecQueue).
MaxQueueTime == 2
MaxQueueReviews == 2
MaxQuota == 1
\* The overlapping saves specification (SpecSave).
MaxSaves == 2
MaxRetryCount == 7
MaxHandlers == 2

(* --------------------------------------------------------------- strings *)
\* The characters of the model in code-unit order ("~" stands for ￰).
Alphabet ==
    << "-", "0", "1", "2", "3", "4", "5", "6", "7", "8", "9", ":", "_",
       "a", "b", "c", "d", "e", "f", "i", "m", "n", "p", "q", "r", "s", "t", "v", "w", "x", "y",
       "~" >>

OrdTable == [c \in {Alphabet[i] : i \in 1..Len(Alphabet)} |->
                CHOOSE i \in 1..Len(Alphabet) : Alphabet[i] = c]

Ord(c) == OrdTable[c]

Min2(a, b) == IF a <= b THEN a ELSE b

\* JavaScript string comparison a < b: code units, left to right.
RECURSIVE StrLess(_, _)
StrLess(a, b) ==
    IF b = <<>> THEN FALSE
    ELSE IF a = <<>> THEN TRUE
    ELSE IF Ord(Head(a)) # Ord(Head(b)) THEN Ord(Head(a)) < Ord(Head(b))
    ELSE StrLess(Tail(a), Tail(b))

StrLeq(a, b) == a = b \/ StrLess(a, b)

\* The printable characters with the codes 32 to 95, in the order of their
\* codes, and those with the codes 97 to 126.
AsciiUpper ==
    << " ", "!", "\"", "#", "$", "%", "&", "'", "(", ")", "*", "+", ",", "-", ".", "/",
       "0", "1", "2", "3", "4", "5", "6", "7", "8", "9", ":", ";", "<", "=", ">", "?", "@",
       "A", "B", "C", "D", "E", "F", "G", "H", "I", "J", "K", "L", "M", "N", "O", "P", "Q",
       "R", "S", "T", "U", "V", "W", "X", "Y", "Z", "[", "\\", "]", "^", "_" >>
AsciiLower ==
    << "a", "b", "c", "d", "e", "f", "g", "h", "i", "j", "k", "l", "m", "n", "o", "p", "q",
       "r", "s", "t", "u", "v", "w", "x", "y", "z", "{", "|", "}", "~" >>

HexDigits == <<"0", "1", "2", "3", "4", "5", "6", "7", "8", "9", "a", "b", "c", "d", "e", "f">>

\* The codes of the line feed and of the printable characters.
CharCodes ==
    [c \in {"\n"} \cup {AsciiUpper[i] : i \in 1..Len(AsciiUpper)}
                  \cup {AsciiLower[i] : i \in 1..Len(AsciiLower)} |->
        IF c = "\n" THEN 10
        ELSE IF \E i \in 1..Len(AsciiUpper) : AsciiUpper[i] = c
        THEN 31 + (CHOOSE i \in 1..Len(AsciiUpper) : AsciiUpper[i] = c)
        ELSE 96 + (CHOOSE i \in 1..Len(AsciiLower) : AsciiLower[i] = c)]

\* The two hexadecimal digits of each of these characters.
HexTable ==
    [c \in DOMAIN CharCodes |->
        <<HexDigits[(CharCodes[c] \div 16) + 1], HexDigits[(CharCodes[c] % 16) + 1]>>]

\* The two hexadecimal digits of a character's code.
HexOf(c) == IF c \in DOMAIN HexTable THEN HexTable[c] ELSE <<"f", "f">>

\* CryptoJS.SHA256(s).toString(): a hexadecimal string that differs for
\* different inputs.  The digest is modelled by the hexadecimal dump of the
\* input, which has both properties.
RECURSIVE SHA256(_)
SHA256(s) == IF s = <<>> THEN <<>> ELSE HexOf(Head(s)) \o SHA256(Tail(s))

Sep == <<":", ":">>

\* Date.toISOString / new Date(iso) of the card state documents.
toISOString(t) == [iso |-> t]
ParseDate(s) == s.iso

\* `${timestamp}` for the timestamps of the model (one digit each).
DigitOf(n) == Alphabet[n + 2]
NumStr(n) == IF n < 10 THEN <<DigitOf(n)>> ELSE <<DigitOf(n \div 10), DigitOf(n % 10)>>

(* ----------------------------------------------------------------- types *)
New == "New"
Learning == "Learning"
Review == "Review"
Relearning == "Relearning"

Again == "Again"
Hard == "Hard"
Good == "Good"
Easy == "Easy"
Ratings == {Again, Hard, Good, Easy}

\* An absent optional value (fsrsData?: FSRSData, a missing map entry).
None == [absent |-> TRUE]

EmptyMap == [x \in {} |-> None]

MapSet(m, k, v) == [x \in DOMAIN m \cup {k} |-> IF x = k THEN v ELSE m[x]]
MapDelete(m, ks) == [x \in DOMAIN m \ ks |-> m[x]]
MapGet(m, k) == IF k \in DOMAIN m THEN m[k] ELSE None

SeqToSet(s) == {s[i] : i \in 1..Len(s)}

RECURSIVE FilterSeq(_, _)
FilterSeq(s, keep) ==
    IF s = <<>> THEN <<>>
    ELSE (IF Head(s) \in keep THEN <<Head(s)>> ELSE <<>>) \o FilterSeq(Tail(s), keep)

\* A slice that reads a limit of zero as no limit.
SliceZeroUnlimited(s, n) == IF n = 0 THEN s ELSE SubSeq(s, 1, Min2(n, Len(s)))

\* Array.prototype.slice(0, n) for n >= 0.
Slice(s, n) == SubSeq(s, 1, Min2(n, Len(s)))

(* ------------------------------------------------------------- the vault *)
PathA == <<"a">>
PathB == <<"b">>
Paths == {PathA, PathB}

(* ------------------------------------------------- the cloze expressions *)
Digits == {"0", "1", "2", "3", "4", "5", "6", "7", "8", "9"}
\* [a-zA-Z0-9-]
IdChars == {AsciiLower[i] : i \in 1..26} \cup {AsciiUpper[i] : i \in 34..59}
           \cup Digits \cup {"-"}
\* \s
Whitespace == {" ", "\n", "\t"}

\* s holds pat at position i.
HasAt(s, i, pat) == i + Len(pat) - 1 <= Len(s) /\ \A k \in 1..Len(pat) : s[i + k - 1] = pat[k]

\* The first position from `from` on where s holds pat, or 0.
RECURSIVE indexOf(_, _, _)
indexOf(s, pat, from) ==
    IF from + Len(pat) - 1 > Len(s) THEN 0
    ELSE IF HasAt(s, from, pat) THEN from
    ELSE indexOf(s, pat, from + 1)

\* String.prototype.replace with a string pattern: the first occurrence only.
replace(s, pat, by) ==
    LET i == indexOf(s, pat, 1)
    IN  IF i = 0 THEN s
        ELSE SubSeq(s, 1, i - 1) \o by \o SubSeq(s, i + Len(pat), Len(s))

\* The last position of the run of digits that starts at i (i - 1 without one).
RECURSIVE DigitsEnd(_, _)
DigitsEnd(s, i) ==
    IF i <= Len(s) /\ s[i] \in Digits THEN DigitsEnd(s, i + 1) ELSE i - 1

\* The match of ==c(\d+)::(.*?)== that starts at position i, or None.  Without
\* the s flag the dot does not match a line feed.
ClozeAt(s, i, dotAll) ==
    IF ~HasAt(s, i, <<"=", "=", "c">>) THEN None
    ELSE LET d == DigitsEnd(s, i + 3)
         IN  IF d < i + 3 \/ ~HasAt(s, d + 1, <<":", ":">>) THEN None
             ELSE LET e == indexOf(s, <<"=", "=">>, d + 3)
                  IN  IF e = 0 THEN None
                      ELSE IF ~dotAll /\ \E k \in (d + 3)..(e - 1) : s[k] = "\n" THEN None
                      ELSE [index |-> i, num |-> SubSeq(s, i + 3, d),
                            text |-> SubSeq(s, d + 3, e - 1), last |-> e + 1]

\* paragraph.matchAll(/==c(\d+)::(.*?)==/gs) from position i on.
RECURSIVE matchAll(_, _)
matchAll(s, i) ==
    IF i > Len(s) THEN <<>>
    ELSE LET m == ClozeAt(s, i, TRUE)
         IN  IF m = None THEN matchAll(s, i + 1)
             ELSE <<m>> \o matchAll(s, m.last + 1)

\* paragraph.replace(/==c\d+::(.*?)==/g, '$1') from position i on.
RECURSIVE replaceClozes(_, _)
replaceClozes(s, i) ==
    IF i > Len(s) THEN <<>>
    ELSE LET m == ClozeAt(s, i, FALSE)
         IN  IF m = None THEN <<s[i]>> \o replaceClozes(s, i + 1)
             ELSE m.text \o replaceClozes(s, m.last + 1)

\* The length of the first n characters of s without their trailing whitespace.
RECURSIVE TrimmedLen(_, _)
TrimmedLen(s, n) ==
    IF n >= 1 /\ s[n] \in Whitespace THEN TrimmedLen(s, n - 1) ELSE n

\* The first position of the run of id characters that ends at position n.
RECURSIVE IdStart(_, _)
IdStart(s, n) == IF n >= 1 /\ s[n] \in IdChars THEN IdStart(s, n - 1) ELSE n + 1

\* paragraph.match(/\^([a-zA-Z0-9-]+)\s*$/): the block id at the end of the
\* paragraph, or the empty string without one.
blockIdMatch(s) ==
    LET n == TrimmedLen(s, Len(s))
        k == IdStart(s, n)
    IN  IF k <= n /\ k > 1 /\ s[k - 1] = "^" THEN SubSeq(s, k, n) ELSE <<>>

\* A note's text after the two splits of updateFile: the chunks that follow
\* a ---card--- marker, each with its front part already matched against the
\* block-id pattern, and the paragraphs that hold cloze markers.
BasicChunk(anchor, front, back) ==
    [parts |-> 2, anchor |-> anchor, front |-> front, back |-> back]

NoAnchor == <<>>

\* A paragraph with one cloze and a block id: ==c1::q== ^w
ParAnchored ==
    << "=", "=", "c", "1", ":", ":", "q", "=", "=", " ", "^", "w" >>

\* The paragraph of the documentation's example: The ==c1::mitochondria== is the ==c2::powerhouse==.
ClozeExample ==
    << "T", "h", "e", " ", "=", "=", "c", "1", ":", ":", "m", "i", "t", "o", "c", "h", "o",
       "n", "d", "r", "i", "a", "=", "=", " ", "i", "s", " ", "t", "h", "e", " ", "=", "=",
       "c", "2", ":", ":", "p", "o", "w", "e", "r", "h", "o", "u", "s", "e", "=", "=", "." >>

\* One cloze: a ==c1::b== c
ParOne ==
    << "a", " ", "=", "=", "c", "1", ":", ":", "b", "=", "=", " ", "c" >>

\* Two clozes, the higher number first: ==c2::a== ==c1::b==
ParTwo ==
    << "=", "=", "c", "2", ":", ":", "a", "=", "=", " ", "=", "=", "c", "1", ":", ":", "b",
       "=", "=" >>

\* Two clozes and a block id: ==c1::a== x ==c2::b== ^y-1
ParTwoAnchored ==
    << "=", "=", "c", "1", ":", ":", "a", "=", "=", " ", "x", " ", "=", "=", "c", "2", ":",
       ":", "b", "=", "=", " ", "^", "y", "-", "1" >>

\* A cloze that runs over a line break: ==c1::a\nb== c
ParLines ==
    << "=", "=", "c", "1", ":", ":", "a", "\n", "b", "=", "=", " ", "c" >>

\* No cloze: a b
ParPlain ==
    << "a", " ", "b" >>

\* The paragraphs of the model's notes.
ClozeParagraphs == {ParAnchored, ClozeExample, ParOne, ParTwo, ParTwoAnchored, ParLines, ParPlain}

\* Two basic cards, the first with a block id.
TextTwo ==
    [basic |-> << BasicChunk(<<"x">>, <<"p">>, <<"r">>), BasicChunk(NoAnchor, <<"q">>, <<"r">>) >>,
     cloze |-> <<>>]
\* TextTwo edited: the front of the first card changed, the second card
\* replaced by one without a back and by a paragraph with one cloze and a
\* block id.
TextEdited ==
    [basic |-> << BasicChunk(<<"x">>, <<"p", "p">>, <<"r">>), BasicChunk(NoAnchor, <<"q">>, <<>>) >>,
     cloze |-> << ParAnchored >>]
\* No qualifying card.
TextNone ==
    [basic |-> << [parts |-> 1, anchor |-> NoAnchor, front |-> <<"p">>, back |-> <<>>] >>,
     cloze |-> <<>>]

Texts == {TextTwo, TextEdited, TextNone}

\* The notes of the model: every text with the deck tag, and one without it.
Files == [tagged : {TRUE}, text : Texts] \cup {[tagged |-> FALSE, text |-> TextTwo]}

VARIABLES
    vault,          \* path -> the note at that path (its deck tag, its text)
    now,            \* the clock, new Date()
    settings,       \* plugin.settings: newCardsPerDay, reviewsPerDay
    decks,          \* DataManager.decks: deckId -> Deck
    cards,          \* DataManager.cards: cardId -> Card
    fsrsDataStore,  \* DataManager.fsrsDataStore: cardId -> MemoryState
    reviewHistory,  \* DataManager.reviewHistory
    pouchDocs,      \* the documents of the local PouchDB: _id -> document
    dataJson,       \* data.json: cardData and reviewHistory (legacy storage)
    isLoaded,       \* DataManager.isLoaded
    modal,          \* the open ReviewModal, or None
    writeFailed,    \* the last updateCard caught and logged a rejected PouchDB write
    nRatings,       \* number of updateCard calls so far
    lastOp,         \* the DataManager operation that completed last
    saves,          \* the saveCardState calls whose steps interleave, each with its position
    indexing,       \* the updateFile that awaits vault.read, or None
    sync,           \* PouchDBManager's sync fields: syncHandler, retryCount, syncing
    handlers        \* the vault event handlers that wait at an await of updateFile

vars == << vault, now, settings, decks, cards, fsrsDataStore, reviewHistory, pouchDocs,
           dataJson, isLoaded, modal, writeFailed, nRatings, lastOp, saves, indexing, sync, handlers >>

(* ------------------------------------------------------ identity, cards *)
getDeckId(path) == SHA256(path)

\* An id that is the block id alone.
AnchorOnlyId(path, chunk) ==
    IF chunk.anchor # NoAnchor THEN chunk.anchor ELSE SHA256(path \o Sep \o chunk.front)

\* The id of a basic card: the block id namespaced by the deck, or the hash
\* of the path and the front.
BasicCardId(path, chunk) ==
    IF chunk.anchor # NoAnchor
    THEN getDeckId(path) \o Sep \o chunk.anchor
    ELSE SHA256(path \o Sep \o chunk.front)

\* The placeholder of a hidden cloze.
Placeholder == <<"[", ".", ".", ".", "]">>

\* The front of the card of a cloze: paragraph.replace(originalCloze, '[...]').
ClozeFront(paragraph, cloze) ==
    replace(paragraph, SubSeq(paragraph, cloze.index, cloze.last), Placeholder)

\* The back of the cards of a paragraph.
ClozeBack(paragraph) == replaceClozes(paragraph, 1)

\* What updateFile takes from a paragraph, whatever the note it is in: the
\* clozes, the block id, and the front of each cloze's card and their back.
ClozeParts(paragraph) ==
    LET clozes == matchAll(paragraph, 1)
    IN  [clozes |-> clozes,
         blockId |-> blockIdMatch(paragraph),
         fronts |-> [k \in 1..Len(clozes) |-> ClozeFront(paragraph, clozes[k])],
         back |-> ClozeBack(paragraph)]

\* The same for each paragraph of the model's notes, evaluated once; every
\* paragraph of a note is one of ClozeParagraphs.
ParagraphParts == [p \in ClozeParagraphs |-> ClozeParts(p)]
PartsOf(paragraph) == ParagraphParts[paragraph]

\* The id of the card of cloze clozeNum (its digits) of a paragraph.
ClozeCardId(path, paragraph, clozeNum) ==
    LET blockId == blockIdMatch(paragraph)
    IN  IF blockId # NoAnchor
        THEN getDeckId(path) \o Sep \o blockId \o <<"-">> \o clozeNum
        ELSE SHA256(path \o Sep \o paragraph \o Sep \o clozeNum)

MakeCard(id, path, type, front, back, store) ==
    [id |-> id, deckId |-> getDeckId(path), filePath |-> path, type |-> type,
     front |-> front, back |-> back, fsrsData |-> MapGet(store, id)]

\* The loop over basicCardsRaw: the cards it sets, in order.
RECURSIVE BasicCards(_, _, _)
BasicCards(path, chunks, store) ==
    IF chunks = <<>> THEN <<>>
    ELSE LET c == Head(chunks)
             rest == BasicCards(path, Tail(chunks), store)
         IN  IF c.parts < 2 THEN rest
             ELSE IF c.front = <<>> \/ c.back = <<>> THEN rest
             ELSE << MakeCard(BasicCardId(path, c), path, "basic", c.front, c.back, store) >>
                  \o rest

\* clozes.forEach of one paragraph.
RECURSIVE ClozesOf(_, _, _, _)
ClozesOf(path, paragraph, k, store) ==
    LET parts == PartsOf(paragraph)
    IN  IF k > Len(parts.clozes) THEN <<>>
        ELSE << MakeCard(ClozeCardId(path, paragraph, parts.clozes[k].num), path, "cloze",
                         parts.fronts[k], parts.back, store) >>
             \o ClozesOf(path, paragraph, k + 1, store)

\* The loop over paragraphs.
RECURSIVE ClozeCards(_, _, _)
ClozeCards(path, pars, store) ==
    IF pars = <<>> THEN <<>>
    ELSE ClozesOf(path, Head(pars), 1, store)
         \o ClozeCards(path, Tail(pars), store)

\* Every card updateFile constructs for a note, in extraction order.
ExtractCards(path, text, store) ==
    BasicCards(path, text.basic, store) \o ClozeCards(path, text.cloze, store)

\* Set.add in insertion order: the ids of a card sequence without repeats.
RECURSIVE AddIds(_, _)
AddIds(ids, cs) ==
    IF cs = <<>> THEN ids
    ELSE AddIds(IF Head(cs).id \in SeqToSet(ids) THEN ids ELSE Append(ids, Head(cs).id),
                Tail(cs))

\* Map.set of every card of a sequence, the later card winning.
RECURSIVE SetCards(_, _)
SetCards(m, cs) ==
    IF cs = <<>> THEN m ELSE SetCards(MapSet(m, Head(cs).id, Head(cs)), Tail(cs))

(* ------------------------------------------------------- the deck index *)
\* The in-memory maps of the DataManager as one value.
DM == [decks |-> decks, cards |-> cards, store |-> fsrsDataStore]

ZeroStats == [new |-> 0, due |-> 0, learning |-> 0]

\* removeDeck without its save(): the deck, its cards and their states go.
removeDeckMem(dm, deckId) ==
    IF deckId \in DOMAIN dm.decks
    THEN LET ids == SeqToSet(dm.decks[deckId].cardIds)
         IN  [decks |-> MapDelete(dm.decks, {deckId}),
              cards |-> MapDelete(dm.cards, ids),
              store |-> MapDelete(dm.store, ids)]
    ELSE dm

IsDeck(file) == file.tagged

\* The part of updateFile after vault.read: the cards of the content are
\* set, and the deck is set when it has a card.
indexContent(dm, path, text) ==
    LET deckId == getDeckId(path)
        cs == ExtractCards(path, text, dm.store)
        newDeck == [id |-> deckId, title |-> path, filePath |-> path,
                    cardIds |-> AddIds(<<>>, cs), stats |-> ZeroStats]
    IN  [decks |-> IF newDeck.cardIds # <<>>
                   THEN MapSet(dm.decks, deckId, newDeck) ELSE dm.decks,
         cards |-> SetCards(dm.cards, cs),
         store |-> dm.store]

\* An updateFile that returns at once for a note without the deck tag.
updateFileKeepUntagged(dm, path, file) ==
    IF ~IsDeck(file) THEN dm
    ELSE indexContent(removeDeckMem(dm, getDeckId(path)), path, file.text)

\* updateFile(file) run to completion on the note at path.
updateFileMem(dm, path, file) ==
    LET d1 == removeDeckMem(dm, getDeckId(path))
    IN  IF ~IsDeck(file) THEN d1 ELSE indexContent(d1, path, file.text)

\* The member cards of a deck that exist and carry its id.
ValidCards(dm, deckId) ==
    LET ids == dm.decks[deckId].cardIds
        ok == {id \in SeqToSet(ids) : id \in DOMAIN dm.cards /\ dm.cards[id].deckId = deckId}
    IN  FilterSeq(ids, ok)

IsNewData(data) == data = None \/ data.state = New

\* Stats that count a tracked card once: as learning, or else as due.
DeckStatsOneBucket(dm, deckId, t) ==
    LET ids == SeqToSet(ValidCards(dm, deckId))
        tracked == {id \in ids : ~IsNewData(MapGet(dm.store, id))}
        learning == {id \in tracked : dm.store[id].state \in {Learning, Relearning}}
    IN  [new |-> Cardinality(ids \ tracked),
         due |-> Cardinality({id \in tracked \ learning : dm.store[id].due <= t}),
         learning |-> Cardinality(learning)]

\* The stats of one deck as recalculateAllDeckStats counts them.
DeckStats(dm, deckId, t) ==
    LET ids == SeqToSet(ValidCards(dm, deckId))
        tracked == {id \in ids : ~IsNewData(MapGet(dm.store, id))}
    IN  [new |-> Cardinality(ids \ tracked),
         due |-> Cardinality({id \in tracked : dm.store[id].due <= t}),
         learning |-> Cardinality({id \in tracked :
                                     dm.store[id].state \in {Learning, Relearning}})]

recalculateAllDeckStats(dm, t) ==
    [dm EXCEPT !.decks =
        [d \in DOMAIN dm.decks |-> [dm.decks[d] EXCEPT !.stats = DeckStats(dm, d, t)]]]

\* vault.getMarkdownFiles(): the notes of the vault, in a fixed order.
PathOrder == << PathA, PathB >>

RECURSIVE UpdateFiles(_, _, _)
UpdateFiles(dm, paths, v) ==
    IF paths = <<>> THEN dm
    ELSE UpdateFiles(IF Head(paths) \in DOMAIN v
                     THEN updateFileMem(dm, Head(paths), v[Head(paths)]) ELSE dm,
                     Tail(paths), v)

\* buildIndex run to completion.
buildIndexMem(dm, v, t) ==
    recalculateAllDeckStats(
        UpdateFiles([decks |-> EmptyMap, cards |-> EmptyMap, store |-> dm.store],
                    PathOrder, v), t)

(* ---------------------------------------------------- the PouchDB store *)
usePouchDB == TRUE

FsrsPrefix == <<"f", "s", "r", "s", "-">>
ReviewPrefix == <<"r", "e", "v", "i", "e", "w", "_">>
HighKey == <<"~">>

\* The smallest string of a non-empty set.
MinKey(ks) == CHOOSE k \in ks : \A o \in ks : StrLeq(k, o)

RECURSIVE SortKeys(_)
SortKeys(ks) ==
    IF ks = {} THEN <<>> ELSE <<MinKey(ks)>> \o SortKeys(ks \ {MinKey(ks)})

Reverse(s) == [i \in 1..Len(s) |-> s[Len(s) + 1 - i]]

\* db.allDocs({startkey, endkey, descending}): the ids of the rows.  In a
\* descending read the rows run from startkey down to endkey.
AllDocs(docs, startkey, endkey, descending) ==
    IF descending
    THEN Reverse(SortKeys({k \in DOMAIN docs : StrLeq(endkey, k) /\ StrLeq(k, startkey)}))
    ELSE SortKeys({k \in DOMAIN docs : StrLeq(startkey, k) /\ StrLeq(k, endkey)})

CardStateDoc(cardId, deckId, filePath, fsrsData) ==
    [type |-> "card_state", cardId |-> cardId, deckId |-> deckId, filePath |-> filePath,
     due |-> toISOString(fsrsData.due), state |-> fsrsData.state]

\* The FSRSCard read back from a card state document.
DocState(doc) == [state |-> doc.state, due |-> ParseDate(doc.due)]

\* saveCardState: the existing document updated, or a new one, then put.
saveCardState(docs, cardId, deckId, filePath, fsrsData) ==
    MapSet(docs, cardId, CardStateDoc(cardId, deckId, filePath, fsrsData))

getCardState(docs, cardId) ==
    IF cardId \in DOMAIN docs /\ docs[cardId].type = "card_state"
    THEN DocState(docs[cardId]) ELSE None

\* getAllCardStates: the card state documents among the rows from 'fsrs-'
\* to 'fsrs-￰'.
getAllCardStates(docs) ==
    LET rows == SeqToSet(AllDocs(docs, FsrsPrefix, FsrsPrefix \o HighKey, FALSE))
        hit == {k \in rows : docs[k].type = "card_state"}
    IN  [id \in {docs[k].cardId : k \in hit} |->
            DocState(docs[CHOOSE k \in hit : docs[k].cardId = id])]

ReviewLogId(cardId, timestamp) == ReviewPrefix \o NumStr(timestamp) \o <<"_">> \o cardId

ReviewLogDoc(cardId, timestamp, rating) ==
    [type |-> "review_log", cardId |-> cardId, timestamp |-> timestamp, rating |-> rating]

\* db.put of a new document: rejected (409) when the id is taken.
CanAddReviewLog(docs, cardId, timestamp) == ReviewLogId(cardId, timestamp) \notin DOMAIN docs

addReviewLog(docs, cardId, timestamp, rating) ==
    MapSet(docs, ReviewLogId(cardId, timestamp), ReviewLogDoc(cardId, timestamp, rating))

LogEntry(doc) == [cardId |-> doc.cardId, timestamp |-> doc.timestamp, rating |-> doc.rating]

RECURSIVE LogRows(_, _)
LogRows(docs, ks) ==
    IF ks = <<>> THEN <<>>
    ELSE (IF docs[Head(ks)].type = "review_log" THEN <<LogEntry(docs[Head(ks)])>> ELSE <<>>)
         \o LogRows(docs, Tail(ks))

\* getReviewHistory() without a limit.
getReviewHistory(docs) ==
    LogRows(docs, AllDocs(docs, ReviewPrefix, ReviewPrefix \o HighKey, TRUE))

\* getReviewHistory(limit): allDocs stops after limit rows.
getReviewHistoryLimit(docs, limit) ==
    LogRows(docs, Slice(AllDocs(docs, ReviewPrefix, ReviewPrefix \o HighKey, TRUE), limit))

\* A destroy that leaves the documents in place.
destroyNothing(docs) == docs

\* PouchDBManager.destroy followed by new PouchDBManager('neuralcard_local').
destroy(docs) == EmptyMap

(* -------------------------------------------------------- the scheduler *)
NewCard(t) == [state |-> New, due |-> t]

\* The state ts-fsrs gives a card after a rating.
NextState(state, rating) ==
    CASE state = New -> IF rating = Easy THEN Review ELSE Learning
      [] state \in {Learning, Relearning} -> IF rating \in {Good, Easy} THEN Review ELSE state
      [] OTHER -> IF rating = Again THEN Relearning ELSE Review

\* The interval ts-fsrs schedules, in ticks: always in the future, and no
\* shorter for a better rating.
Interval(rating) == IF rating \in {Again, Hard} THEN 1 ELSE 2

\* fsrs.repeat(fsrsCard, now)[rating].card
Scheduled(fsrsCard, t, rating) ==
    [state |-> NextState(fsrsCard.state, rating), due |-> t + Interval(rating)]

(* ---------------------------------------------------- the queue builder *)
\* Array.prototype.sort by due, ascending, stable.
RECURSIVE InsertByDue(_, _)
InsertByDue(sorted, c) ==
    IF sorted = <<>> THEN <<c>>
    ELSE IF c.fsrsData.due < Head(sorted).fsrsData.due THEN <<c>> \o sorted
    ELSE <<Head(sorted)>> \o InsertByDue(Tail(sorted), c)

\* No sort: the cards stay in extraction order.
Unsorted(cs) == cs

RECURSIVE SortByDue(_)
SortByDue(cs) ==
    IF cs = <<>> THEN <<>>
    ELSE InsertByDue(SortByDue(SubSeq(cs, 1, Len(cs) - 1)), cs[Len(cs)])

IsDueCard(c, t) == c.fsrsData # None /\ c.fsrsData.state # New /\ c.fsrsData.due <= t
IsNewCard(c) == IsNewData(c.fsrsData)

RECURSIVE CardsOf(_, _)
CardsOf(m, ids) == IF ids = <<>> THEN <<>> ELSE <<m[Head(ids)]>> \o CardsOf(m, Tail(ids))

RECURSIVE SelectCards(_, _, _)
SelectCards(cs, t, wantDue) ==
    IF cs = <<>> THEN <<>>
    ELSE (IF (IF wantDue THEN IsDueCard(Head(cs), t) ELSE IsNewCard(Head(cs)))
          THEN <<Head(cs)>> ELSE <<>>) \o SelectCards(Tail(cs), t, wantDue)

getCardsByDeck(deckId) ==
    IF deckId \notin DOMAIN decks THEN <<>> ELSE CardsOf(cards, ValidCards(DM, deckId))

dueCardsOf(deckId) == SortByDue(SelectCards(getCardsByDeck(deckId), now, TRUE))
newCardsOf(deckId) == SelectCards(getCardsByDeck(deckId), now, FALSE)

getReviewQueue(deckId) ==
    IF deckId \notin DOMAIN decks THEN <<>>
    ELSE Slice(dueCardsOf(deckId), settings.reviewsPerDay)
         \o Slice(newCardsOf(deckId), settings.newCardsPerDay)

getAllCardsForStudy(deckId) ==
    IF deckId \notin DOMAIN decks THEN <<>>
    ELSE dueCardsOf(deckId) \o newCardsOf(deckId)

\* getDecks(): the deck ids, sorted by title.
getDecks == LET byTitle == SortKeys({decks[d].title : d \in DOMAIN decks})
            IN  [i \in 1..Len(byTitle) |-> CHOOSE d \in DOMAIN decks : decks[d].title = byTitle[i]]

RECURSIVE FlatQueues(_)
FlatQueues(ds) == IF ds = <<>> THEN <<>> ELSE getReviewQueue(Head(ds)) \o FlatQueues(Tail(ds))

\* filter((c, i, arr) => arr.indexOf(c) === i)
RECURSIVE Dedupe(_, _)
Dedupe(seen, cs) ==
    IF cs = <<>> THEN <<>>
    ELSE (IF Head(cs) \in seen THEN <<>> ELSE <<Head(cs)>>)
         \o Dedupe(seen \cup {Head(cs)}, Tail(cs))

\* The queue of the Study All Due button.
allDueCards == Dedupe({}, FlatQueues(getDecks))

(* ------------------------------------------------------ the review modal *)
\* A queue entry: the Card object, and whether that object is still the one
\* the card map holds (re-indexing makes new objects).
Entries(cs) == [i \in 1..Len(cs) |-> [card |-> cs[i], live |-> TRUE]]

\* The modal after onOpen: shown is the index of the card showNextCard
\* rendered last (the queue's length for the completion screen), threw tells
\* whether a handleRating ended in a TypeError.
NewModal(cs) == [queue |-> Entries(cs), currentCardIndex |-> 0, state |-> "question",
                 timers |-> 0, shown |-> 0, threw |-> FALSE]

\* The modal after the card map dropped or replaced the objects of ids.
Detach(m, ids) ==
    IF m = None THEN m
    ELSE [m EXCEPT !.queue =
            [i \in 1..Len(m.queue) |->
                [m.queue[i] EXCEPT !.live = m.queue[i].live /\ m.queue[i].card.id \notin ids]]]

\* The modal after every indexed card lost its fsrsData.
ClearLive(m) ==
    IF m = None THEN m
    ELSE [m EXCEPT !.queue =
            [i \in 1..Len(m.queue) |->
                IF m.queue[i].live THEN [m.queue[i] EXCEPT !.card.fsrsData = None]
                ELSE m.queue[i]]]

\* The ids whose objects updateFile drops or replaces.
Replaced(dm, path, file) ==
    (IF getDeckId(path) \in DOMAIN dm.decks
     THEN SeqToSet(dm.decks[getDeckId(path)].cardIds) ELSE {})
    \cup (IF IsDeck(file)
          THEN {c.id : c \in SeqToSet(ExtractCards(path, file.text, dm.store))} ELSE {})

(* --------------------------------------------------------------- actions *)
Op(name) == name

\* The sync fields of a new PouchDBManager: no syncHandler, retryCount 0, not
\* syncing, no remote URL.  manual counts the one-shot replications of
\* manualSync that have not ended, ended those that have (up to 1), pauses the non-fatal 'paused' events since
\* the last 'change' event or setupSync, notified tells whether the last sync
\* step called the error handler.
NoUrl == ""
NoSync == [syncHandler |-> FALSE, retryCount |-> 0, syncing |-> FALSE, remoteUrl |-> NoUrl,
           manual |-> 0, ended |-> 0, pauses |-> 0, notified |-> FALSE]

\* What save() writes to data.json.
SavedData(store, history) ==
    [cardData |-> IF usePouchDB THEN EmptyMap ELSE store,
     reviewHistory |-> IF usePouchDB THEN <<>> ELSE history]

SetDM(dm) ==
    /\ decks' = dm.decks
    /\ cards' = dm.cards
    /\ fsrsDataStore' = dm.store

DefaultSettings == [newCardsPerDay |-> 20, reviewsPerDay |-> 200]

Init ==
    /\ vault = EmptyMap
    /\ now = 0
    /\ settings \in [newCardsPerDay : 0..MaxQuota, reviewsPerDay : 0..MaxQuota] \cup {DefaultSettings}
    /\ decks = EmptyMap
    /\ cards = EmptyMap
    /\ fsrsDataStore = EmptyMap
    /\ reviewHistory = <<>>
    /\ pouchDocs = EmptyMap
    /\ dataJson = SavedData(EmptyMap, <<>>)
    /\ isLoaded = FALSE
    /\ modal = None
    /\ writeFailed = FALSE
    /\ nRatings = 0
    /\ lastOp = Op("init")
    /\ saves = <<>>
    /\ indexing = None
    /\ sync = NoSync
    /\ handlers = <<>>

\* Time passes.
Tick(limit) ==
    /\ now < limit
    /\ now' = now + 1
    /\ UNCHANGED << handlers, sync, saves, indexing, vault, settings, decks, cards, fsrsDataStore, reviewHistory, pouchDocs,
                    dataJson, isLoaded, modal, writeFailed, nRatings, lastOp >>

\* The debounced callback of the vault events, which runs once the event is
\* handled: recalculateAllDeckStats and a dashboard refresh.
debouncedRefresh(dm, t) == recalculateAllDeckStats(dm, t)

\* updateAndRefresh(file) of a create or modify event.
updateAndRefresh(path, file) ==
    /\ SetDM(debouncedRefresh(updateFileMem(DM, path, file), now))
    /\ modal' = Detach(modal, Replaced(DM, path, file))
    /\ lastOp' = Op("updateFile")
    /\ UNCHANGED << handlers, sync, saves, indexing, now, settings, reviewHistory, pouchDocs, dataJson, isLoaded,
                    writeFailed, nRatings >>

\* A note is created: the vault's create event.
CreateFile(path, file) ==
    /\ path \notin DOMAIN vault
    /\ vault' = MapSet(vault, path, file)
    /\ updateAndRefresh(path, file)

\* A note is edited (its text or its tags): the vault's modify event.
ModifyFile(path, file) ==
    /\ path \in DOMAIN vault
    /\ vault' = MapSet(vault, path, file)
    /\ updateAndRefresh(path, file)

\* removeDeck(deckId, fullDelete): with fullDelete and a deck found, save().
removeDeck(deckId, fullDelete) ==
    /\ SetDM(debouncedRefresh(removeDeckMem(DM, deckId), now))
    /\ modal' = Detach(modal, IF deckId \in DOMAIN decks
                              THEN SeqToSet(decks[deckId].cardIds) ELSE {})
    /\ dataJson' = IF fullDelete /\ deckId \in DOMAIN decks
                   THEN SavedData(removeDeckMem(DM, deckId).store, reviewHistory)
                   ELSE dataJson

\* A note is deleted: the vault's delete event.
DeleteFile(path) ==
    /\ path \in DOMAIN vault
    /\ vault' = MapDelete(vault, {path})
    /\ removeDeck(getDeckId(path), TRUE)
    /\ lastOp' = Op("removeDeck")
    /\ UNCHANGED << handlers, sync, saves, indexing, now, settings, reviewHistory, pouchDocs, isLoaded, writeFailed, nRatings >>

\* A rename that moves the deck to the id of the new path and leaves its
\* cards as they are.
renameDeckRekey(dm, path, file, oldPath) ==
    IF getDeckId(oldPath) \in DOMAIN dm.decks
    THEN [dm EXCEPT !.decks =
            MapSet(MapDelete(dm.decks, {getDeckId(oldPath)}), getDeckId(path),
                   [dm.decks[getDeckId(oldPath)] EXCEPT !.id = getDeckId(path),
                                                        !.filePath = path])]
    ELSE dm

\* A rename that indexes the new path and leaves the old deck in place.
renameDeckKeepOld(dm, path, file, oldPath) == updateFileMem(dm, path, file)

\* renameDeck(file, oldPath) run to completion, file being the note at path.
renameDeckMem(dm, path, file, oldPath) ==
    updateFileMem(removeDeckMem(dm, getDeckId(oldPath)), path, file)

\* A note is renamed: the vault's rename event.
RenameFile(oldPath, path) ==
    /\ oldPath \in DOMAIN vault
    /\ path \in Paths \ DOMAIN vault
    /\ vault' = MapSet(MapDelete(vault, {oldPath}), path, vault[oldPath])
    /\ SetDM(debouncedRefresh(renameDeckMem(DM, path, vault[oldPath], oldPath), now))
    /\ modal' = Detach(modal, (IF getDeckId(oldPath) \in DOMAIN decks
                               THEN SeqToSet(decks[getDeckId(oldPath)].cardIds) ELSE {})
                              \cup Replaced(DM, path, vault[oldPath]))
    /\ dataJson' = SavedData(fsrsDataStore', reviewHistory)
    /\ lastOp' = Op("renameDeck")
    /\ UNCHANGED << handlers, sync, saves, indexing, now, settings, reviewHistory, pouchDocs, isLoaded, writeFailed, nRatings >>

\* load() on the maps dm: loadFromPouchDB, then buildIndex.
loadMem(dm, docs, v, t) ==
    buildIndexMem([decks |-> dm.decks, cards |-> dm.cards,
                   store |-> IF usePouchDB THEN getAllCardStates(docs) ELSE dataJson.cardData],
                  v, t)

loadedHistory(docs) == IF usePouchDB THEN getReviewHistory(docs) ELSE dataJson.reviewHistory

\* The layout is ready: load().
Load ==
    /\ ~isLoaded
    /\ SetDM(loadMem(DM, pouchDocs, vault, now))
    /\ reviewHistory' = loadedHistory(pouchDocs)
    /\ modal' = Detach(modal, DOMAIN cards)
    /\ isLoaded' = TRUE
    /\ lastOp' = Op("load")
    /\ UNCHANGED << handlers, sync, saves, indexing, vault, now, settings, pouchDocs, dataJson, writeFailed, nRatings >>

\* The plugin is unloaded and loaded again: a new DataManager, and its load().
Restart ==
    /\ isLoaded
    /\ SetDM(loadMem([decks |-> EmptyMap, cards |-> EmptyMap, store |-> EmptyMap],
                     pouchDocs, vault, now))
    /\ reviewHistory' = loadedHistory(pouchDocs)
    /\ modal' = None
    /\ lastOp' = Op("restart")
    /\ UNCHANGED << handlers, sync, saves, indexing, vault, now, settings, pouchDocs, dataJson, isLoaded, writeFailed, nRatings >>

\* The dashboard's Refresh button: buildIndex.
RefreshClick ==
    /\ isLoaded
    /\ SetDM(buildIndexMem(DM, vault, now))
    /\ modal' = Detach(modal, DOMAIN cards)
    /\ lastOp' = Op("buildIndex")
    /\ UNCHANGED << handlers, sync, saves, indexing, vault, now, settings, reviewHistory, pouchDocs, dataJson, isLoaded,
                    writeFailed, nRatings >>

OpenModal(queue) ==
    /\ isLoaded
    /\ modal = None
    /\ queue # <<>>
    /\ modal' = NewModal(queue)
    /\ UNCHANGED << handlers, sync, saves, indexing, vault, now, settings, decks, cards, fsrsDataStore, reviewHistory,
                    pouchDocs, dataJson, isLoaded, writeFailed, nRatings, lastOp >>

\* The Study button of a deck.
StudyDeck(deckId) == OpenModal(getReviewQueue(deckId))

\* The Cram button of a deck.
CramDeck(deckId) == OpenModal(getAllCardsForStudy(deckId))

\* The Study All Due button.
StudyAll == OpenModal(allDueCards)

\* ReviewModal.showAnswer
showAnswer ==
    /\ modal # None
    /\ modal.state = "question"
    /\ modal' = [modal EXCEPT !.state = "answer"]
    /\ UNCHANGED << handlers, sync, saves, indexing, vault, now, settings, decks, cards, fsrsDataStore, reviewHistory,
                    pouchDocs, dataJson, isLoaded, writeFailed, nRatings, lastOp >>

\* updateCard(card, rating) on the object of queue entry e; saveOk and logOk
\* tell whether PouchDB accepts the two writes.
updateCard(e, rating, newFsrsData, saveOk, logOk) ==
    LET card == e.card
        logged == logOk /\ CanAddReviewLog(pouchDocs, card.id, now)
        d1 == IF saveOk
              THEN saveCardState(pouchDocs, card.id, card.deckId, card.filePath, newFsrsData)
              ELSE pouchDocs
    IN  /\ fsrsDataStore' = MapSet(fsrsDataStore, card.id, newFsrsData)
        /\ cards' = IF e.live THEN [cards EXCEPT ![card.id].fsrsData = newFsrsData] ELSE cards
        /\ reviewHistory' = Append(reviewHistory,
                                   [cardId |-> card.id, timestamp |-> now, rating |-> rating])
        /\ pouchDocs' = IF ~usePouchDB THEN pouchDocs
                        ELSE IF logged THEN addReviewLog(d1, card.id, now, rating) ELSE d1
        /\ writeFailed' = (usePouchDB /\ (~saveOk \/ ~logged))
        /\ dataJson' = IF usePouchDB THEN dataJson
                       ELSE SavedData(fsrsDataStore', reviewHistory')
        /\ nRatings' = nRatings + 1

\* ReviewModal.handleRating(rating), from a rating button or a key, with a
\* card at currentCardIndex.
handleRatingCard(rating, saveOk, logOk, limit) ==
    /\ nRatings < limit
    /\ LET i == modal.currentCardIndex + 1
           e == modal.queue[i]
           newFsrsData == Scheduled(IF e.card.fsrsData # None THEN e.card.fsrsData
                                    ELSE NewCard(now), now, rating)
       IN  /\ updateCard(e, rating, newFsrsData, saveOk, logOk)
           /\ modal' = [modal EXCEPT !.queue[i].card.fsrsData = newFsrsData,
                                     !.currentCardIndex = modal.currentCardIndex + 1,
                                     !.timers = modal.timers + 1]
    /\ lastOp' = Op("updateCard")
    /\ UNCHANGED << handlers, sync, saves, indexing, vault, now, settings, decks, isLoaded >>

\* The same past the end of the queue: getCurrentCard() is undefined, and
\* updateCard throws a TypeError at card.fsrsData before it changes anything.
handleRatingUndefined ==
    /\ modal' = [modal EXCEPT !.threw = TRUE]
    /\ UNCHANGED << handlers, sync, saves, indexing, vault, now, settings, decks, cards, fsrsDataStore,
                    reviewHistory, pouchDocs, dataJson, isLoaded, writeFailed, nRatings, lastOp >>

\* ReviewModal.handleRating(rating): the rating buttons, and the keys 1 to 4
\* while state is 'answer'.
handleRating(rating, saveOk, logOk, limit) ==
    /\ modal # None
    /\ modal.state = "answer"
    /\ IF modal.currentCardIndex < Len(modal.queue)
       THEN handleRatingCard(rating, saveOk, logOk, limit)
       ELSE handleRatingUndefined

\* The timer of handleRating fires: showNextCard.
showNextCard ==
    /\ modal # None
    /\ modal.timers > 0
    /\ modal' = [modal EXCEPT !.timers = modal.timers - 1,
                              !.shown = modal.currentCardIndex,
                              !.state = IF modal.currentCardIndex >= Len(modal.queue)
                                        THEN modal.state ELSE "question"]
    /\ UNCHANGED << handlers, sync, saves, indexing, vault, now, settings, decks, cards, fsrsDataStore, reviewHistory,
                    pouchDocs, dataJson, isLoaded, writeFailed, nRatings, lastOp >>

\* The modal is closed (Escape, the close button, Return to Dashboard).
closeModal ==
    /\ modal # None
    /\ modal' = None
    /\ UNCHANGED << handlers, sync, saves, indexing, vault, now, settings, decks, cards, fsrsDataStore, reviewHistory,
                    pouchDocs, dataJson, isLoaded, writeFailed, nRatings, lastOp >>

\* DataManager.resetAllProgress run to completion.
resetAllProgress ==
    /\ isLoaded
    /\ LET cleared == [c \in DOMAIN cards |-> [cards[c] EXCEPT !.fsrsData = None]]
       IN  SetDM(recalculateAllDeckStats(
                    [decks |-> decks, cards |-> cleared, store |-> EmptyMap], now))
    /\ reviewHistory' = <<>>
    /\ modal' = ClearLive(modal)
    /\ pouchDocs' = IF usePouchDB THEN destroy(pouchDocs) ELSE pouchDocs
    /\ dataJson' = SavedData(EmptyMap, <<>>)
    /\ lastOp' = Op("resetAllProgress")
    /\ UNCHANGED << handlers, sync, saves, indexing, vault, now, settings, isLoaded, writeFailed, nRatings >>

Next ==
    \/ Tick(MaxTime)
    \/ modal = None /\ \E path \in Paths, file \in Files : CreateFile(path, file)
    \/ modal = None /\ \E path \in Paths, file \in Files : ModifyFile(path, file)
    \/ modal = None /\ \E path \in Paths : DeleteFile(path)
    \/ modal = None /\ \E oldPath \in Paths, path \in Paths : RenameFile(oldPath, path)
    \/ Load
    \/ Restart
    \/ RefreshClick
    \/ \E deckId \in DOMAIN decks : StudyDeck(deckId)
    \/ \E deckId \in DOMAIN decks : CramDeck(deckId)
    \/ StudyAll
    \/ showAnswer
    \/ \E rating \in Ratings, saveOk \in BOOLEAN, logOk \in BOOLEAN :
          handleRating(rating, saveOk, logOk, MaxReviews)
    \/ closeModal
    \/ showNextCard
    \/ resetAllProgress

\* The lifecycle of the index and the store, with the default quotas.
InitDefault == Init /\ settings = DefaultSettings

Spec == InitDefault /\ [][Next]_vars

\* The notes of the queue specification.
QueueFiles == {[tagged |-> TRUE, text |-> TextTwo]}

NextQueue ==
    \/ Tick(MaxQueueTime)
    \/ \E path \in Paths, file \in QueueFiles : CreateFile(path, file)
    \/ Load
    \/ \E deckId \in DOMAIN decks : StudyDeck(deckId)
    \/ \E deckId \in DOMAIN decks : CramDeck(deckId)
    \/ StudyAll
    \/ showAnswer
    \/ \E rating \in Ratings : handleRating(rating, TRUE, TRUE, MaxQueueReviews)
    \/ closeModal
    \/ showNextCard

\* Reviews under every quota: the states the queue builder runs in.
InitQueue == Init /\ settings # DefaultSettings

SpecQueue == InitQueue /\ [][NextQueue]_vars

\* updateCard(card, rating) on the Card object the index holds for id, both
\* writes accepted: a rating outside the bookkeeping of a review session.
RateCard(id, rating, limit) ==
    /\ isLoaded
    /\ id \in DOMAIN cards
    /\ nRatings < limit
    /\ LET e == [card |-> cards[id], live |-> TRUE]
       IN  updateCard(e, rating,
                      Scheduled(IF e.card.fsrsData # None THEN e.card.fsrsData
                                ELSE NewCard(now), now, rating),
                      TRUE, TRUE)
    /\ lastOp' = Op("updateCard")
    /\ UNCHANGED << handlers, sync, saves, indexing, vault, now, settings, decks, isLoaded, modal >>

\* The ratings of the operations specification: the shortest and the longest
\* interval, which between them reach every state of a card.
OpsRatings == {Again, Easy}

\* The operations of the DataManager, one at a time, with no review session.
NextOps ==
    \/ Tick(MaxTime)
    \/ \E path \in Paths, file \in Files : CreateFile(path, file)
    \/ \E path \in Paths, file \in Files : ModifyFile(path, file)
    \/ \E path \in Paths : DeleteFile(path)
    \/ \E oldPath \in Paths, path \in Paths : RenameFile(oldPath, path)
    \/ Load
    \/ RefreshClick
    \/ \E id \in DOMAIN cards, rating \in OpsRatings : RateCard(id, rating, MaxReviews)
    \/ resetAllProgress

SpecOps == InitDefault /\ [][NextOps]_vars

(* ------------------------------------------------- cloze extraction alone *)
\* The notes of the cloze specification: deck-tagged, one paragraph each.
ClozeFiles == [tagged : {TRUE}, text : [basic : {<<>>}, cloze : {<<p>> : p \in ClozeParagraphs}]]

NextCloze ==
    \/ \E path \in Paths, file \in ClozeFiles : CreateFile(path, file)
    \/ \E path \in Paths, file \in ClozeFiles : ModifyFile(path, file)
    \/ \E path \in Paths : DeleteFile(path)
    \/ Load

\* Notes with cloze paragraphs are created, edited and deleted.
SpecCloze == InitDefault /\ [][NextCloze]_vars

(* ---------------------------------------------- updateFile, step by step *)
\* A create or modify event on the note at path: updateFile up to its await
\* of vault.read.  The deck of the note is removed; an untagged note ends the
\* handler here, a tagged one leaves the rest to updateFileEnd.
updateFileBegin(path, file) ==
    /\ indexing = None
    /\ vault' = MapSet(vault, path, file)
    /\ LET d1 == removeDeckMem(DM, getDeckId(path))
       IN  IF ~IsDeck(file)
           THEN /\ SetDM(debouncedRefresh(d1, now))
                /\ lastOp' = Op("updateFile")
                /\ indexing' = None
           ELSE /\ SetDM(d1)
                /\ lastOp' = lastOp
                /\ indexing' = [path |-> path]
    /\ UNCHANGED << handlers, sync, saves, now, settings, reviewHistory, pouchDocs, dataJson, isLoaded, modal,
                    writeFailed, nRatings >>

\* vault.read has answered: the content is indexed, then the debounced
\* refresh of the event runs.
updateFileEnd ==
    /\ indexing # None
    /\ SetDM(debouncedRefresh(indexContent(DM, indexing.path, vault[indexing.path].text), now))
    /\ lastOp' = Op("updateFile")
    /\ indexing' = None
    /\ UNCHANGED << handlers, sync, saves, vault, now, settings, reviewHistory, pouchDocs, dataJson, isLoaded,
                    modal, writeFailed, nRatings >>

NextIndexing ==
    \/ \E path \in Paths, file \in Files : updateFileBegin(path, file)
    \/ updateFileEnd
    \/ \E path \in Paths : indexing = None /\ DeleteFile(path)
    \/ Load

\* Create and modify events whose updateFile is seen between its steps.
SpecIndexing == InitDefault /\ [][NextIndexing]_vars

(* ------------------------------------------- saveCardState, step by step *)
\* The card ids of the saves: a namespaced block id and a content hash.
SaveIds == {BasicCardId(PathA, TextTwo.basic[1]), BasicCardId(PathA, TextTwo.basic[2])}

\* The MemoryStates of the saves.
SaveStates == {[state |-> Learning, due |-> 1], [state |-> Review, due |-> 2]}

\* updateCard calls saveCardState and does not wait for it.
callSaveCardState(cardId, fsrsData) ==
    /\ Len(saves) < MaxSaves
    /\ saves' = Append(saves, [cardId |-> cardId, deckId |-> getDeckId(PathA),
                               filePath |-> PathA, fsrsData |-> fsrsData, pc |-> "get",
                               existing |-> None, current |-> FALSE])
    /\ UNCHANGED << handlers, sync, indexing, vault, now, settings, decks, cards, fsrsDataStore, reviewHistory,
                    pouchDocs, dataJson, isLoaded, modal, writeFailed, nRatings, lastOp >>

\* await this.db.get(cardId): the document and its revision, or 404.
saveGet(i) ==
    /\ saves[i].pc = "get"
    /\ saves' = [saves EXCEPT ![i].existing = MapGet(pouchDocs, saves[i].cardId),
                              ![i].current = TRUE,
                              ![i].pc = "put"]
    /\ UNCHANGED << handlers, sync, indexing, vault, now, settings, decks, cards, fsrsDataStore, reviewHistory,
                    pouchDocs, dataJson, isLoaded, modal, writeFailed, nRatings, lastOp >>

\* await this.db.put(doc): accepted when the revision read (or the absence
\* read) is still the document's; otherwise 409, which saveCardState logs
\* and throws again.  An accepted put gives the document a new revision.
savePut(i) ==
    /\ saves[i].pc = "put"
    /\ IF saves[i].current
       THEN /\ pouchDocs' = saveCardState(pouchDocs, saves[i].cardId, saves[i].deckId,
                                          saves[i].filePath, saves[i].fsrsData)
            /\ saves' = [j \in 1..Len(saves) |->
                            IF j = i THEN [saves[j] EXCEPT !.pc = "done"]
                            ELSE IF saves[j].cardId = saves[i].cardId
                            THEN [saves[j] EXCEPT !.current = FALSE]
                            ELSE saves[j]]
       ELSE /\ pouchDocs' = pouchDocs
            /\ saves' = [saves EXCEPT ![i].pc = "failed"]
    /\ UNCHANGED << handlers, sync, indexing, vault, now, settings, decks, cards, fsrsDataStore, reviewHistory,
                    dataJson, isLoaded, modal, writeFailed, nRatings, lastOp >>

NextSave ==
    \/ \E cardId \in SaveIds, fsrsData \in SaveStates : callSaveCardState(cardId, fsrsData)
    \/ \E i \in 1..Len(saves) : saveGet(i)
    \/ \E i \in 1..Len(saves) : savePut(i)

\* saveCardState calls whose reads and writes interleave.
SpecSave == InitDefault /\ [][NextSave]_vars

(* ------------------------------------------ vault events during a session *)
\* A review session with the vault events, Refresh and the reset running
\* while the modal is open: the queue keeps the Card objects it was built
\* from.
NextSession ==
    \/ Tick(MaxTime)
    \/ \E path \in Paths, file \in QueueFiles : CreateFile(path, file)
    \/ \E path \in Paths, file \in QueueFiles : ModifyFile(path, file)
    \/ \E path \in Paths : DeleteFile(path)
    \/ \E oldPath \in Paths, path \in Paths : RenameFile(oldPath, path)
    \/ Load
    \/ RefreshClick
    \/ \E deckId \in DOMAIN decks : StudyDeck(deckId)
    \/ showAnswer
    \/ \E rating \in OpsRatings : handleRating(rating, TRUE, TRUE, MaxReviews)
    \/ showNextCard
    \/ closeModal
    \/ resetAllProgress

SpecSession == InitDefault /\ [][NextSession]_vars

(* ------------------------------------------- vault events that interleave *)
Remove(s, i) == [j \in 1..(Len(s) - 1) |-> IF j < i THEN s[j] ELSE s[j + 1]]

\* A create or modify event on the note at path: updateAndRefresh up to the
\* await of vault.read in updateFile.  The deck of the note is removed; for
\* an untagged note updateFile returns and the debounced refresh runs, for a
\* tagged one the handler waits for the content.
onModify(path, file, limit) ==
    /\ Len(handlers) < limit
    /\ vault' = MapSet(vault, path, file)
    /\ LET d1 == removeDeckMem(DM, getDeckId(path))
       IN  IF ~IsDeck(file)
           THEN /\ SetDM(debouncedRefresh(d1, now))
                /\ handlers' = handlers
           ELSE /\ SetDM(d1)
                /\ handlers' = Append(handlers, [path |-> path, content |-> None])
    /\ lastOp' = Op("updateFile")
    /\ UNCHANGED << sync, saves, indexing, now, settings, reviewHistory, pouchDocs, dataJson,
                    isLoaded, modal, writeFailed, nRatings >>

\* vault.read of handler i is served: with the content the note has now, or
\* with an error when the note is gone, which ends updateFile and the handler.
readAnswer(i) ==
    /\ handlers[i].content = None
    /\ handlers' = IF handlers[i].path \in DOMAIN vault
                   THEN [handlers EXCEPT ![i].content = vault[handlers[i].path].text]
                   ELSE Remove(handlers, i)
    /\ UNCHANGED << sync, saves, indexing, vault, now, settings, decks, cards, fsrsDataStore,
                    reviewHistory, pouchDocs, dataJson, isLoaded, modal, writeFailed, nRatings,
                    lastOp >>

\* Handler i goes on after its await: the content read is indexed, then the
\* debounced refresh runs.
updateFileResume(i) ==
    /\ handlers[i].content # None
    /\ SetDM(debouncedRefresh(indexContent(DM, handlers[i].path, handlers[i].content), now))
    /\ handlers' = Remove(handlers, i)
    /\ lastOp' = Op("updateFile")
    /\ UNCHANGED << sync, saves, indexing, vault, now, settings, reviewHistory, pouchDocs,
                    dataJson, isLoaded, modal, writeFailed, nRatings >>

\* The notes of the events specification: two contents with different cards,
\* and an untagged note.
EventFiles == {[tagged |-> TRUE, text |-> TextTwo], [tagged |-> TRUE, text |-> TextEdited],
               [tagged |-> FALSE, text |-> TextTwo]}

NextEvents ==
    \/ \E path \in Paths, file \in EventFiles : onModify(path, file, MaxHandlers)
    \/ \E i \in 1..Len(handlers) : readAnswer(i)
    \/ \E i \in 1..Len(handlers) : updateFileResume(i)
    \/ \E path \in Paths : DeleteFile(path)
    \/ handlers = <<>> /\ Load

\* Create, modify and delete events whose handlers interleave at the await of
\* updateFile.
SpecEvents == InitDefault /\ [][NextEvents]_vars

(* ------------------------------------------- legacy data in data.json *)
\* The data.json of an installation that reviewed in legacy mode before
\* PouchDB was enabled: a MemoryState and a review log of one card.
LegacyData ==
    LET id == BasicCardId(PathA, TextTwo.basic[1])
    IN  [cardData |-> MapSet(EmptyMap, id, [state |-> Review, due |-> 1]),
         reviewHistory |-> << [cardId |-> id, timestamp |-> 0, rating |-> Good] >>]

\* The plugin is constructed over that data.json.
InitLegacy ==
    /\ vault = EmptyMap
    /\ now = 0
    /\ settings = DefaultSettings
    /\ decks = EmptyMap
    /\ cards = EmptyMap
    /\ fsrsDataStore = EmptyMap
    /\ reviewHistory = <<>>
    /\ pouchDocs = EmptyMap
    /\ dataJson = LegacyData
    /\ isLoaded = FALSE
    /\ modal = None
    /\ writeFailed = FALSE
    /\ nRatings = 0
    /\ lastOp = Op("init")
    /\ saves = <<>>
    /\ indexing = None
    /\ sync = NoSync
    /\ handlers = <<>>

\* A setting is changed in the settings tab: saveSettings() reads data.json
\* and writes it back with the settings and the cardData and reviewHistory
\* it read.
saveSettings(newSettings) ==
    /\ settings' = newSettings
    /\ dataJson' = [cardData |-> dataJson.cardData, reviewHistory |-> dataJson.reviewHistory]
    /\ lastOp' = Op("saveSettings")
    /\ UNCHANGED << sync, handlers, saves, indexing, vault, now, decks, cards, fsrsDataStore,
                    reviewHistory, pouchDocs, isLoaded, modal, writeFailed, nRatings >>

NextLegacy ==
    \/ \E path \in Paths, file \in QueueFiles : CreateFile(path, file)
    \/ \E path \in Paths, file \in QueueFiles : ModifyFile(path, file)
    \/ \E path \in Paths : DeleteFile(path)
    \/ \E oldPath \in Paths, path \in Paths : RenameFile(oldPath, path)
    \/ Load
    \/ \E id \in DOMAIN cards, rating \in OpsRatings : RateCard(id, rating, MaxReviews)
    \/ \E newSettings \in [newCardsPerDay : 0..MaxQuota, reviewsPerDay : 0..MaxQuota] :
           saveSettings(newSettings)
    \/ resetAllProgress

\* The operations that save, in PouchDB mode, over a data.json with legacy
\* progress.
SpecLegacy == InitLegacy /\ [][NextLegacy]_vars

(* ----------------------------------------------------------------- stats *)
\* 1000 * 60 * 60 * 24 milliseconds, in ticks: a tick is half a day.
MsPerDay == 2

\* getStats().forecast: for every indexed card with an entry in
\* fsrsDataStore, if (data.due <= now) and daysForward =
\* Math.floor((due - now) / day) is in 0..6 then forecast[daysForward]++.
forecast ==
    [i \in 0..6 |->
        Cardinality({id \in DOMAIN cards :
            LET data == MapGet(fsrsDataStore, id)
            IN  /\ data # None
                /\ data.due <= now
                /\ (data.due - now) \div MsPerDay = i})]

(* ------------------------------------------------------------------ sync *)
\* private maxRetries = 5
maxRetries == 5

SyncMetaId == << "s", "y", "n", "c", "_", "m", "e", "t", "a" >>

\* The URLs the settings tab builds for the remote database.
RemoteUrls == {"https://u:p@a/neuralcard", "https://u:p@b/neuralcard"}

\* setupSync(remoteUrl): the sync_meta document is read, or made when it is
\* absent, and put; a running continuous sync is cancelled and a new one is
\* started.  retryCount is left as it is.
setupSync(remoteUrl) ==
    LET existing == MapGet(pouchDocs, SyncMetaId)
        syncMeta == IF existing # None
                    THEN [existing EXCEPT !.remoteUrl = remoteUrl, !.syncEnabled = TRUE,
                                          !.lastSyncTime = toISOString(now)]
                    ELSE [type |-> "sync_meta", remoteUrl |-> remoteUrl, syncEnabled |-> TRUE,
                          lastSyncTime |-> toISOString(now)]
    IN  /\ pouchDocs' = MapSet(pouchDocs, SyncMetaId, syncMeta)
        /\ sync' = [sync EXCEPT !.remoteUrl = remoteUrl, !.syncHandler = TRUE, !.pauses = 0,
                                !.notified = FALSE]
        /\ lastOp' = Op("setupSync")
        /\ UNCHANGED << handlers, saves, indexing, vault, now, settings, decks, cards, fsrsDataStore,
                        reviewHistory, dataJson, isLoaded, modal, writeFailed, nRatings >>

\* The 'change' event of the continuous sync.
syncChange ==
    /\ sync.syncHandler
    /\ sync' = [sync EXCEPT !.retryCount = 0, !.pauses = 0, !.notified = FALSE]
    /\ lastOp' = Op("syncChange")
    /\ UNCHANGED << handlers, saves, indexing, vault, now, settings, decks, cards, fsrsDataStore,
                    reviewHistory, pouchDocs, dataJson, isLoaded, modal, writeFailed, nRatings >>

\* The 'active' event of the continuous sync: retryCount is not reset.
syncActive ==
    /\ sync.syncHandler
    /\ sync' = [sync EXCEPT !.notified = FALSE]
    /\ lastOp' = Op("syncActive")
    /\ UNCHANGED << handlers, saves, indexing, vault, now, settings, decks, cards, fsrsDataStore,
                    reviewHistory, pouchDocs, dataJson, isLoaded, modal, writeFailed, nRatings >>

\* The 'paused' event of the continuous sync.  fatal: err.status is 404, 401
\* or 403.
syncPaused(fatal, limit) ==
    /\ sync.syncHandler
    /\ sync.retryCount < limit
    /\ IF fatal
       THEN /\ sync' = [sync EXCEPT !.syncHandler = FALSE, !.notified = TRUE]
            /\ lastOp' = Op("syncPausedFatal")
       ELSE LET retryCount == sync.retryCount + 1
            IN  /\ sync' = [sync EXCEPT !.retryCount = retryCount,
                                        !.pauses = @ + 1,
                                        !.syncHandler = ~(retryCount > maxRetries),
                                        !.notified = retryCount > maxRetries]
                /\ lastOp' = Op("syncPaused")
    /\ UNCHANGED << handlers, saves, indexing, vault, now, settings, decks, cards, fsrsDataStore,
                    reviewHistory, pouchDocs, dataJson, isLoaded, modal, writeFailed, nRatings >>

\* stopSync(): the continuous sync is cancelled and sync_meta, when there is
\* one, gets syncEnabled false.
stopSync ==
    LET existing == MapGet(pouchDocs, SyncMetaId)
    IN  /\ pouchDocs' = IF existing # None
                        THEN MapSet(pouchDocs, SyncMetaId, [existing EXCEPT !.syncEnabled = FALSE])
                        ELSE pouchDocs
        /\ sync' = [sync EXCEPT !.syncHandler = FALSE, !.notified = FALSE]
        /\ lastOp' = Op("stopSync")
        /\ UNCHANGED << handlers, saves, indexing, vault, now, settings, decks, cards, fsrsDataStore,
                        reviewHistory, dataJson, isLoaded, modal, writeFailed, nRatings >>

\* A manual sync that ends and leaves the syncing flag set.
manualSyncEndedKeepFlag(s) == [s EXCEPT !.manual = @ - 1, !.ended = 1]

\* The 'complete' and the 'error' handler of manualSync: this.syncing = false.
manualSyncEnded(s) == [s EXCEPT !.syncing = FALSE, !.manual = @ - 1, !.ended = 1]

\* manualSync(): rejects without a remote URL and while this.syncing is set;
\* otherwise sets this.syncing and starts a one-shot replication.
manualSync ==
    /\ IF sync.remoteUrl = NoUrl
       THEN /\ lastOp' = Op("manualSyncNoUrl")
            /\ sync' = sync
       ELSE IF sync.syncing
       THEN /\ lastOp' = Op("manualSyncRejected")
            /\ sync' = sync
       ELSE /\ lastOp' = Op("manualSync")
            /\ sync' = [sync EXCEPT !.syncing = TRUE, !.manual = @ + 1, !.notified = FALSE]
    /\ UNCHANGED << handlers, saves, indexing, vault, now, settings, decks, cards, fsrsDataStore,
                    reviewHistory, pouchDocs, dataJson, isLoaded, modal, writeFailed, nRatings >>

\* The 'complete' event of a manual sync: syncing is cleared, then
\* sync_meta.lastSyncTime is updated when the document exists.
manualSyncComplete ==
    LET existing == MapGet(pouchDocs, SyncMetaId)
    IN  /\ sync.manual > 0
        /\ sync' = [manualSyncEnded(sync) EXCEPT !.notified = FALSE]
        /\ pouchDocs' = IF existing # None
                        THEN MapSet(pouchDocs, SyncMetaId,
                                    [existing EXCEPT !.lastSyncTime = toISOString(now)])
                        ELSE pouchDocs
        /\ lastOp' = Op("manualSyncComplete")
        /\ UNCHANGED << handlers, saves, indexing, vault, now, settings, decks, cards, fsrsDataStore,
                        reviewHistory, dataJson, isLoaded, modal, writeFailed, nRatings >>

\* The 'error' event of a manual sync.
manualSyncError ==
    /\ sync.manual > 0
    /\ sync' = [manualSyncEnded(sync) EXCEPT !.notified = TRUE]
    /\ lastOp' = Op("manualSyncError")
    /\ UNCHANGED << handlers, saves, indexing, vault, now, settings, decks, cards, fsrsDataStore,
                    reviewHistory, pouchDocs, dataJson, isLoaded, modal, writeFailed, nRatings >>

NextSync ==
    \/ Tick(MaxTime)
    \/ \E remoteUrl \in RemoteUrls : setupSync(remoteUrl)
    \/ syncChange
    \/ syncActive
    \/ \E fatal \in BOOLEAN : syncPaused(fatal, MaxRetryCount)
    \/ stopSync
    \/ manualSync
    \/ manualSyncComplete
    \/ manualSyncError

\* The continuous sync and the manual syncs of one PouchDBManager.
SpecSync == InitDefault /\ [][NextSync]_vars

(* ---------------------------------------------------------------- claims *)
\* The MemoryState documents of the local database.
CardStateIds == {k \in DOMAIN pouchDocs : pouchDocs[k].type = "card_state"}

\* C1: a MemoryState created by updateCard survives an updateFile pass over
\* the card's note whenever the pass extracts a card with the same id: the
\* state stays in fsrsDataStore and is the fsrsData of the indexed card.
C1_StateSurvivesUpdateFile ==
    [][lastOp' = Op("updateFile") =>
          \A id \in DOMAIN cards \cap DOMAIN cards' :
              (id \in DOMAIN fsrsDataStore /\ cards[id].fsrsData = fsrsDataStore[id]) =>
                  /\ id \in DOMAIN fsrsDataStore'
                  /\ fsrsDataStore'[id] = fsrsDataStore[id]
                  /\ cards'[id].fsrsData = fsrsDataStore[id]]_vars

\* C2: every MemoryState that saveCardState wrote is in the mapping that
\* getAllCardStates returns, under the card's id and with the value written.
C2_SavedStateIsListed ==
    \A k \in CardStateIds :
        /\ pouchDocs[k].cardId \in DOMAIN getAllCardStates(pouchDocs)
        /\ getAllCardStates(pouchDocs)[pouchDocs[k].cardId] = DocState(pouchDocs[k])

\* C3: an updateCard whose saveCardState or addReviewLog was rejected does not
\* advance the review session to the next card.
C3_FailedWriteDoesNotAdvance ==
    [][(nRatings' = nRatings + 1 /\ writeFailed') =>
          modal'.currentCardIndex = modal.currentCardIndex]_vars

\* C9: after the delete event of a note, its deck and cards are gone from the
\* index, and no MemoryState of its cards is left in fsrsDataStore or in the
\* local database.
C9_DeleteRemovesStates ==
    [][\A path \in DOMAIN vault :
          (lastOp' = Op("removeDeck") /\ path \notin DOMAIN vault'
           /\ getDeckId(path) \in DOMAIN decks) =>
              /\ getDeckId(path) \notin DOMAIN decks'
              /\ \A id \in SeqToSet(decks[getDeckId(path)].cardIds) :
                    /\ id \notin DOMAIN cards'
                    /\ id \notin DOMAIN fsrsDataStore'
                    /\ getCardState(pouchDocs', id) = None]_vars

\* The New cards of a card sequence, in its order.
NewOf(cs) == SelectCards(cs, now, FALSE)

\* The ids of a card sequence, in its order.
IdsOf(cs) == [i \in 1..Len(cs) |-> cs[i].id]

IsPrefix(a, b) == Len(a) <= Len(b) /\ a = SubSeq(b, 1, Len(a))

\* The cards of a deck that are due now.
DueSet(deckId) == {c \in SeqToSet(getCardsByDeck(deckId)) : IsDueCard(c, now)}

C5_NewWithinQuotaInOrder ==
    \A deckId \in DOMAIN decks :
        LET path == decks[deckId].filePath
            new == NewOf(getReviewQueue(deckId))
            extracted == ExtractCards(path, vault[path].text, fsrsDataStore)
        IN  /\ Len(new) <= settings.newCardsPerDay
            /\ IsPrefix(IdsOf(new), IdsOf(NewOf(extracted)))
            /\ settings.newCardsPerDay = 0 => new = <<>>

\* A deck with two New cards under a quota of one, and one under a quota of
\* zero, are both in the reachable states; this is the first.
C5_Witness ==
    \E deckId \in DOMAIN decks :
        /\ settings.newCardsPerDay = 1
        /\ Len(newCardsOf(deckId)) = 2
        /\ Len(NewOf(getReviewQueue(deckId))) = 1

\* C6: the queue of Study All Due holds at most newCardsPerDay New cards and
\* at most reviewsPerDay due cards.
C6_GlobalQueueWithinQuotas ==
    /\ Len(NewOf(allDueCards)) <= settings.newCardsPerDay
    /\ Len(SelectCards(allDueCards, now, TRUE)) <= settings.reviewsPerDay

\* C7: getAllCardsForStudy(deckId) returns every card of the deck.
C7_CramReturnsEveryCard ==
    \A deckId \in DOMAIN decks :
        SeqToSet(IdsOf(getAllCardsForStudy(deckId))) = SeqToSet(decks[deckId].cardIds)

C10_RenameMovesDeck ==
    [][\A oldPath \in DOMAIN vault, path \in DOMAIN vault' \ DOMAIN vault :
          (lastOp' = Op("renameDeck") /\ oldPath \notin DOMAIN vault') =>
              LET file == vault'[path]
                  oldId == getDeckId(oldPath)
                  newId == getDeckId(path)
              IN  /\ oldId \notin DOMAIN decks'
                  /\ \A id \in DOMAIN cards' : cards'[id].deckId # oldId
                  /\ (IsDeck(file) /\ ExtractCards(path, file.text, EmptyMap) # <<>>) =>
                        /\ {d \in DOMAIN decks' : decks'[d].filePath = path} = {newId}
                        /\ Len(decks'[newId].cardIds) > 0
                        /\ \A id \in SeqToSet(decks'[newId].cardIds) :
                              /\ id \in DOMAIN cards'
                              /\ cards'[id].deckId = newId
                              /\ cards'[id].filePath = path]_vars

\* The only note of the vault was just renamed and is a deck.
C10_Witness ==
    /\ lastOp = Op("renameDeck")
    /\ Cardinality(DOMAIN vault) = 1
    /\ \E path \in DOMAIN vault : getDeckId(path) \in DOMAIN decks

\* C11: after any sequence of operations run one at a time, every id in a
\* deck's cardIds names a card of the card map whose deckId is that deck, and
\* getCardsByDeck and getReviewQueue return only cards of the deck asked for,
\* and recalculateAllDeckStats counts as New only cards of the deck.
C11_DeckCardsBelongToDeck ==
    \A deckId \in DOMAIN decks :
        /\ \A id \in SeqToSet(decks[deckId].cardIds) :
              id \in DOMAIN cards /\ cards[id].deckId = deckId
        /\ \A c \in SeqToSet(getCardsByDeck(deckId)) \cup SeqToSet(getReviewQueue(deckId)) :
              c.deckId = deckId /\ c.id \in SeqToSet(decks[deckId].cardIds)
        /\ recalculateAllDeckStats(DM, now).decks[deckId].stats.new =
              Cardinality({id \in DOMAIN cards :
                              /\ cards[id].deckId = deckId
                              /\ id \in SeqToSet(decks[deckId].cardIds)
                              /\ IsNewData(MapGet(fsrsDataStore, id))})

\* Two decks are indexed, a card has been rated, and a note was re-indexed
\* after that.
C11_Witness ==
    /\ Cardinality(DOMAIN decks) = 2
    /\ lastOp = Op("updateFile")
    /\ fsrsDataStore # EmptyMap

\* The stats ds carries are the counts of the claim over the card map cs and
\* the state store at time t.
StatsExact(ds, cs, store, t) ==
    \A deckId \in DOMAIN ds :
        LET members == {id \in SeqToSet(ds[deckId].cardIds) :
                           id \in DOMAIN cs /\ cs[id].deckId = deckId}
            fresh == {id \in members : id \notin DOMAIN store \/ store[id].state = New}
            st == ds[deckId].stats
        IN  /\ st.new = Cardinality(fresh)
            /\ st.due = Cardinality({id \in members \ fresh : store[id].due <= t})
            /\ st.learning = Cardinality({id \in members \ fresh :
                                            store[id].state = Learning
                                            \/ store[id].state = Relearning})
            /\ st.new + Cardinality(members \ fresh) = Cardinality(members)

\* C12: what recalculateAllDeckStats computes in any state, and the stats
\* every operation that changes the decks leaves behind, are for each deck the
\* number of member cards without a state or New, the number with a non-New
\* state and due <= now, and the number in Learning or Relearning.
C12_StatsAreTheCounts ==
    [][/\ StatsExact(recalculateAllDeckStats(DM, now).decks, cards, fsrsDataStore, now)
       /\ decks' # decks => StatsExact(decks', cards', fsrsDataStore', now')]_vars

\* A deck with a New card and a card that is both learning and due, counted.
C12_Witness ==
    \E deckId \in DOMAIN decks :
        /\ decks[deckId].stats = [new |-> 1, due |-> 1, learning |-> 1]
        /\ StatsExact(decks, cards, fsrsDataStore, now)

\* The ids updateFile gives the cards of the note at path.
IdsAt(path) ==
    IF path \in DOMAIN vault /\ IsDeck(vault[path])
    THEN {c.id : c \in SeqToSet(ExtractCards(path, vault[path].text, EmptyMap))}
    ELSE {}

\* The cards whose object or MemoryState a step changes or removes.
Touched ==
    {id \in DOMAIN cards :
        \/ id \notin DOMAIN cards'
        \/ cards'[id] # cards[id]
        \/ MapGet(fsrsDataStore', id) # MapGet(fsrsDataStore, id)
        \/ getCardState(pouchDocs', id) # getCardState(pouchDocs, id)}

\* C13: the cards of two notes have different ids even when the notes use the
\* same block id, and each id of the index names the card of its own note; a
\* rating touches the state and the review events of the rated card only, and
\* the re-indexing or removal of one note touches the cards of that note only.
C13_SameAnchorNoCollision ==
    [][/\ \A p \in Paths : \A q \in Paths \ {p} :
             /\ IdsAt(p) \cap IdsAt(q) = {}
             /\ \A id \in IdsAt(p) : id \in DOMAIN cards /\ cards[id].filePath = p
       /\ nRatings' = nRatings + 1 =>
             /\ Len(reviewHistory') = Len(reviewHistory) + 1
             /\ Touched \subseteq {reviewHistory'[Len(reviewHistory')].cardId}
       /\ lastOp' \in {Op("updateFile"), Op("removeDeck")} =>
             \E p \in Paths : \A id \in Touched : cards[id].filePath = p]_vars

\* Both notes hold a card with the block id x, both are indexed, and one of
\* the two has been rated.
C13_Witness ==
    LET ida == getDeckId(PathA) \o Sep \o <<"x">>
        idb == getDeckId(PathB) \o Sep \o <<"x">>
    IN  /\ ida \in DOMAIN cards /\ idb \in DOMAIN cards
        /\ cards[ida].filePath = PathA /\ cards[idb].filePath = PathB
        /\ ida \in DOMAIN fsrsDataStore
        /\ idb \notin DOMAIN fsrsDataStore

\* The persisted review events.
ReviewLogDocs(docs) == {LogEntry(docs[k]) : k \in {i \in DOMAIN docs : docs[i].type = "review_log"}}

\* C14: an updateCard whose writes are accepted appends one review event
\* (the card, the time of the rating, the rating) at the end of the log in
\* memory and adds it as a review_log document; no step other than a reset
\* removes or alters a logged event, in memory or persisted, and the events of
\* a card carry non-decreasing timestamps.
C14_ReviewLogAppendOnly ==
    [][/\ (nRatings' = nRatings + 1 /\ ~writeFailed') =>
             /\ Len(reviewHistory') = Len(reviewHistory) + 1
             /\ reviewHistory'[Len(reviewHistory')].timestamp = now
             /\ ReviewLogDocs(pouchDocs') =
                   ReviewLogDocs(pouchDocs) \cup {reviewHistory'[Len(reviewHistory')]}
       /\ lastOp' # Op("resetAllProgress") =>
             /\ IsPrefix(reviewHistory, reviewHistory')
             /\ ReviewLogDocs(pouchDocs) \subseteq ReviewLogDocs(pouchDocs')
       /\ \A i \in 1..Len(reviewHistory'), j \in 1..Len(reviewHistory') :
             (i < j /\ reviewHistory'[i].cardId = reviewHistory'[j].cardId) =>
                 reviewHistory'[i].timestamp <= reviewHistory'[j].timestamp]_vars

\* C15: getReviewHistory returns the stored review events, each once, the
\* most recent first; with a limit it returns that many of them, or all if
\* there are fewer; it is not empty when an event is stored.
C15_HistoryMostRecentFirst ==
    LET stored == ReviewLogDocs(pouchDocs)
        h == getReviewHistory(pouchDocs)
    IN  /\ SeqToSet(h) = stored
        /\ Len(h) = Cardinality(stored)
        /\ \A i \in 1..Len(h), j \in 1..Len(h) : i < j => h[i].timestamp >= h[j].timestamp
        /\ stored # {} => h # <<>>
        /\ \A limit \in 1..MaxReviews :
              getReviewHistoryLimit(pouchDocs, limit) = Slice(h, limit)

\* C16: saveCardState calls for one card that overlap behave as if run one
\* after the other: none fails, and once all have ended the persisted
\* MemoryState of the card is the one of the call made last.
C16_OverlappingSavesSerialize ==
    /\ \A i \in 1..Len(saves) : saves[i].pc # "failed"
    /\ (\A i \in 1..Len(saves) : saves[i].pc = "done") =>
          \A i \in 1..Len(saves) :
              (\A j \in (i + 1)..Len(saves) : saves[j].cardId # saves[i].cardId) =>
                  getCardState(pouchDocs, saves[i].cardId) = saves[i].fsrsData

\* The ids of the cards getCardsByDeck returns in the maps dm.
ReadIds(dm, deckId) ==
    IF deckId \notin DOMAIN dm.decks THEN {} ELSE SeqToSet(ValidCards(dm, deckId))

\* C17: while updateFile re-indexes a tagged note that had cards and still has
\* cards, a reader finds the note's deck, with all the cards of before or all
\* the cards of after.
C17_ReadersSeeOldOrNew ==
    [][\A path \in Paths :
          LET deckId == getDeckId(path)
              after == [decks |-> decks', cards |-> cards', store |-> fsrsDataStore']
          IN  (/\ deckId \in DOMAIN decks
               /\ path \in DOMAIN vault'
               /\ IsDeck(vault'[path])
               /\ ExtractCards(path, vault'[path].text, EmptyMap) # <<>>)
              => /\ deckId \in DOMAIN decks'
                 /\ ReadIds(after, deckId) \in
                        {ReadIds(DM, deckId),
                         SeqToSet(AddIds(<<>>, ExtractCards(path, vault'[path].text, EmptyMap)))}]_vars

\* The texts the documentation's example is to give.
C18_ExampleFront1 ==
    << "T", "h", "e", " ", "[", ".", ".", ".", "]", " ", "i", "s", " ", "t", "h", "e", " ",
       "p", "o", "w", "e", "r", "h", "o", "u", "s", "e", "." >>
C18_ExampleFront2 ==
    << "T", "h", "e", " ", "m", "i", "t", "o", "c", "h", "o", "n", "d", "r", "i", "a", " ",
       "i", "s", " ", "t", "h", "e", " ", "[", ".", ".", ".", "]", "." >>
C18_ExampleBack ==
    << "T", "h", "e", " ", "m", "i", "t", "o", "c", "h", "o", "n", "d", "r", "i", "a", " ",
       "i", "s", " ", "t", "h", "e", " ", "p", "o", "w", "e", "r", "h", "o", "u", "s", "e",
       "." >>

\* The paragraph from position i on with the cloze at position hidden (0: none
\* hidden) replaced by the placeholder and every other cloze by its text.
RECURSIVE Revealed(_, _, _)
Revealed(s, i, hidden) ==
    IF i > Len(s) THEN <<>>
    ELSE LET m == ClozeAt(s, i, TRUE)
         IN  IF m = None THEN <<s[i]>> \o Revealed(s, i + 1, hidden)
             ELSE (IF m.index = hidden THEN Placeholder ELSE m.text)
                  \o Revealed(s, m.last + 1, hidden)

\* The cloze cards of the index that come from the note at path.
ClozeCardsAt(path) ==
    {id \in DOMAIN cards : cards[id].filePath = path /\ cards[id].type = "cloze"}

\* C18: the card of each cloze of an indexed paragraph shows the paragraph
\* with that cloze as [...] and every other cloze as its text, its back is the
\* paragraph with every cloze as its text, and the example paragraph gives
\* two cards with the fronts and the back of the documentation.
C18_ClozeFrontAndBack ==
    \A path \in DOMAIN vault :
        LET paragraph == vault[path].text.cloze[1]
            clozes == matchAll(paragraph, 1)
        IN  (vault[path].text.basic = <<>> /\ Len(vault[path].text.cloze) = 1) =>
            /\ Cardinality(ClozeCardsAt(path)) = Len(clozes)
            /\ \A k \in 1..Len(clozes) :
                  LET id == ClozeCardId(path, paragraph, clozes[k].num)
                  IN  /\ id \in ClozeCardsAt(path)
                      /\ cards[id].front = Revealed(paragraph, 1, clozes[k].index)
                      /\ cards[id].back = Revealed(paragraph, 1, 0)
            /\ paragraph = ClozeExample =>
                  /\ {cards[id].front : id \in ClozeCardsAt(path)}
                        = {C18_ExampleFront1, C18_ExampleFront2}
                  /\ {cards[id].back : id \in ClozeCardsAt(path)} = {C18_ExampleBack}

\* The index dm holds for the note at path of the vault v exactly what its
\* content gives: a deck when the note is tagged and has a card, with the ids
\* of the extraction in order, and precisely the extracted cards.
IndexedExactly(dm, v, path) ==
    LET deckId == getDeckId(path)
        cs == IF IsDeck(v[path]) THEN ExtractCards(path, v[path].text, dm.store) ELSE <<>>
        ofFile == {id \in DOMAIN dm.cards : dm.cards[id].filePath = path}
    IN  /\ deckId \in DOMAIN dm.decks <=> cs # <<>>
        /\ deckId \in DOMAIN dm.decks =>
              /\ dm.decks[deckId].cardIds = AddIds(<<>>, cs)
              /\ dm.decks[deckId].filePath = path
        /\ {dm.cards[id] : id \in ofFile} = SeqToSet(cs)
        /\ \A id \in ofFile : dm.cards[id].id = id /\ dm.cards[id].deckId = deckId

\* C20: a create or modify event's updateFile leaves a deck for the note if
\* and only if the note is deck-tagged and has a valid card, the deck lists
\* exactly the extracted cards, and a note without tag or without card has no
\* deck and no card in the index.
C20_UpdateFileIndexesExactly ==
    [][\A path \in Paths, file \in Files :
          (CreateFile(path, file) \/ ModifyFile(path, file)) =>
              IndexedExactly([decks |-> decks', cards |-> cards', store |-> fsrsDataStore'],
                             vault', path)]_vars

\* An updateFile has just run where one note lost its tag after a card of it
\* was rated, and has neither deck nor card, and another note has its deck.
C20_Witness ==
    /\ lastOp = Op("updateFile")
    /\ \E path \in DOMAIN vault :
          /\ ~IsDeck(vault[path])
          /\ \E id \in DOMAIN pouchDocs : pouchDocs[id].type = "card_state" /\ pouchDocs[id].filePath = path
          /\ getDeckId(path) \notin DOMAIN decks
          /\ \A id \in DOMAIN cards : cards[id].filePath # path
    /\ \E path \in DOMAIN vault :
          /\ getDeckId(path) \in DOMAIN decks
          /\ IndexedExactly(DM, vault, path)

\* C21: a rating is applied only to the card that is presented with its
\* answer revealed: at every rating of a session the card at currentCardIndex
\* is the one showNextCard rendered last, and the modal shows its answer.
C21_RatingOnlyForShownCard ==
    [][nRatings' = nRatings + 1 =>
          /\ modal # None
          /\ modal.state = "answer"
          /\ modal.shown = modal.currentCardIndex]_vars

\* C29: handleRating never runs without a card at currentCardIndex, and
\* currentCardIndex never passes the length of the queue.
C29_RatingAlwaysHasCard ==
    modal # None => /\ ~modal.threw
                    /\ modal.currentCardIndex <= Len(modal.queue)

\* C22: in the queue of Study All Due every due card comes before every New
\* card, and the due cards are in non-decreasing order of due date.
C22_GlobalQueueDueThenNew ==
    LET q == allDueCards
    IN  \A i \in 1..Len(q) : \A j \in (i + 1)..Len(q) :
            /\ ~(IsNewCard(q[i]) /\ IsDueCard(q[j], now))
            /\ (IsDueCard(q[i], now) /\ IsDueCard(q[j], now))
                  => q[i].fsrsData.due <= q[j].fsrsData.due

\* C23: when a review session closes and the dashboard is rendered again,
\* the stats of every deck are the counts of the current state store.
C23_StatsFreshAfterSession ==
    [][(modal # None /\ modal' = None) =>
          StatsExact(decks', cards', fsrsDataStore', now')]_vars


\* C24: the continuous sync started by setupSync keeps running while at most
\* maxRetries non-fatal pauses have occurred since the last change or since
\* setupSync started it, the next such pause cancels it and notifies the error
\* handler, and a fatal pause cancels it at once.
C24_SyncStopsAfterMaxRetries ==
    [][/\ (sync.syncHandler /\ sync'.pauses = sync.pauses + 1 /\ sync.pauses < maxRetries)
            => sync'.syncHandler
       /\ (sync.syncHandler /\ sync'.pauses = sync.pauses + 1 /\ sync.pauses = maxRetries)
            => (~sync'.syncHandler /\ sync'.notified)
       /\ lastOp' = Op("syncPausedFatal") => (~sync'.syncHandler /\ sync'.notified)]_vars

\* C25: at most one manual sync runs at a time, a manualSync call made while
\* one runs is rejected, and the syncing flag is clear whenever no manual
\* sync runs.
C25_OneManualSyncAtATime ==
    /\ sync.manual <= 1
    /\ sync.manual = 0 => ~sync.syncing
    /\ lastOp = Op("manualSyncRejected") => sync.manual = 1

\* A manual sync has started after an earlier one ended.
C25_Witness ==
    /\ lastOp = Op("manualSync")
    /\ sync.ended = 1
    /\ sync.manual = 1
    /\ sync.syncing
\* C26: forecast[i], for i from 0 to 6, is the number of indexed cards with a
\* MemoryState whose due date lies i whole days after now.
C26_ForecastCountsDueWithinWeek ==
    \A i \in 0..6 :
        forecast[i] = Cardinality({id \in DOMAIN cards :
                          /\ MapGet(fsrsDataStore, id) # None
                          /\ (fsrsDataStore[id].due - now) \div MsPerDay = i})
\* C27: every indexed card's fsrsData is the entry fsrsDataStore holds for its
\* id (both absent, or the same MemoryState), also after updateCard on a Card
\* object of a queue built before the card's note was re-indexed.
C27_CardDataMatchesStore ==
    \A id \in DOMAIN cards : cards[id].fsrsData = MapGet(fsrsDataStore, id)
\* The decks without their statistics.
NoStats(ds) == [d \in DOMAIN ds |-> [ds[d] EXCEPT !.stats = ZeroStats]]

\* The index is the one a buildIndex of the vault gives: the same decks with
\* the same card ids, and the same cards.
IndexFresh ==
    LET fresh == buildIndexMem(DM, vault, now)
    IN  /\ NoStats(decks) = NoStats(fresh.decks)
        /\ cards = fresh.cards

\* C28: once every vault event handler has finished, the index equals a
\* fresh buildIndex of the vault as it is then.
C28_IndexFreshAfterEvents == handlers = <<>> => IndexFresh
\* C30: in PouchDB mode every save other than the reset's leaves the legacy
\* cardData and reviewHistory of data.json as they were.
C30_LegacyDataKept ==
    [][lastOp' # Op("resetAllProgress") =>
          /\ dataJson'.cardData = dataJson.cardData
          /\ dataJson'.reviewHistory = dataJson.reviewHistory]_vars
====
